---- MODULE Spec2Model ----
(***************************************************************************)
(* State-machine model of the sticky-notes board UI (js/ui.js) together    *)
(* with the Note / NoteManager it drives (js/notes.js, described in        *)
(* spec.md sections 3 and 4).                                              *)
(*                                                                         *)
(* Every DOM event handler of ui.js is one action.  Each call of           *)
(* setupNoteEventListeners creates one closure (isDragging, dragOffsetX,   *)
(* dragOffsetY) and registers document-level mousemove / mouseup           *)
(* listeners that are never removed; the closures are kept in elems, in    *)
(* registration order, also after their element left the board.  A closure *)
(* whose element left the board while isDragging is false can never act    *)
(* again (no event reaches a detached element, its mousemove listener      *)
(* returns at the isDragging test and its mouseup listener does nothing),  *)
(* so elems keeps the closures that are attached or still dragging, and    *)
(* those whose quote handler still waits for its fetch or its timer.       *)
(***************************************************************************)
EXTENDS Integers, Sequences, FiniteSets, TLC

\* ------------------------------------------------------------------ bounds
MaxNotes == 2        \* notes ever created (identifiers are never reused)
MaxElems == 3        \* listener closures that can still act
MaxListeners == 2    \* animationend listeners registered on one element
MaxPending == 2      \* quote fetches in flight plus error timers per element
MaxContent == 2      \* length of a note's content

\* Rendered size of a note element on the board (stylesheet; spec.md section 8
\* uses a 100x50 note).
NoteW == 100
NoteH == 50

\* Board rectangles getBoundingClientRect() may report (the viewport resizes).
Boards ==
  { [left |-> 20, top |-> 10, width |-> 500, height |-> 500],
    [left |-> 20, top |-> 10, width |-> 60,  height |-> 40] }

\* Pointer positions (clientX, clientY) the mouse visits: the board's top-left
\* corner, a point inside the large board, the large board's right edge.
Pointers == { <<20, 10>>, <<220, 30>>, <<520, 30>> }

\* Targets of a mousedown inside a note element.
Targets == {"note", "delete", "quote", "content"}

\* Values the wall clock shows when a note is created (Date.now() is not
\* monotonic, and two notes can be created within one clock value).
Timestamps == {1, 2}

VARIABLES
  notes,     \* NoteManager: ordered collection of notes
  nextId,    \* next identifier createNote assigns
  board,     \* current bounding rectangle of #note-board
  mouse,     \* current pointer position <<clientX, clientY>>
  elems,     \* note elements with their listener closures, registration order
  saved,     \* persistence collaborator: data handed over last, parity of
             \* the number of saveNotes calls, outcome of the last call
  ticks,     \* parity of the number of auto-save timer ticks
  resolver,  \* inputs and result of one run of the drag clamp on its own
  exported,  \* export collaborator: data handed over last, parity of the
             \* number of exportNotesAsJson calls, outcome of the last call
  thrown     \* error that the last operation able to raise one let out
             \* ("none" when it returned normally)

vars == <<notes, nextId, board, mouse, elems, saved, ticks, resolver, exported,
         thrown>>

\* ----------------------------------------------------------------- helpers
Min(a, b) == IF a < b THEN a ELSE b
Max(a, b) == IF a > b THEN a ELSE b

Front(s) == SubSeq(s, 1, Len(s) - 1)
Last(s)  == s[Len(s)]

Ids(ns) == { ns[i].id : i \in 1..Len(ns) }

IndexOf(ns, id) == CHOOSE i \in 1..Len(ns) : ns[i].id = id

\* ------------------------------------------------ Note / NoteManager (4.1, 4.2)
createNote(id, content, x, y, ts) ==
  [id |-> id, content |-> content, x |-> x, y |-> y, timestamp |-> ts]

\* Note.updatePosition on the note with identifier id; a note object that is
\* no longer in the Manager is not part of the collection.
updatePosition(ns, id, x, y) ==
  [i \in 1..Len(ns) |->
     IF ns[i].id = id THEN [ns[i] EXCEPT !.x = x, !.y = y] ELSE ns[i]]

\* addNote signals DuplicateIdentifier for a note whose identifier is already
\* in the collection, and appends the note otherwise.
addNoteFails(ns, note) == note.id \in Ids(ns)

addNote(ns, note) == IF addNoteFails(ns, note) THEN ns ELSE Append(ns, note)

\* The text a successful quote fetch returns.
QuoteText == "q"

\* Note.addRandomQuote on success: the quote is appended to the content of
\* the note with identifier id; a note object that is no longer in the
\* Manager is not part of the collection.
appendQuote(ns, id) ==
  [i \in 1..Len(ns) |->
     IF ns[i].id = id THEN [ns[i] EXCEPT !.content = @ \o QuoteText] ELSE ns[i]]

removeNote(ns, id) == SelectSeq(ns, LAMBDA n : n.id # id)

getAllNotes(ns) == ns

toJSON(ns) == [i \in 1..Len(ns) |-> ns[i]]

Before(a, b, desc) ==
  IF desc THEN a.timestamp > b.timestamp ELSE a.timestamp < b.timestamp

\* Insert n, which followed every note of s before the sort, into sorted s.
RECURSIVE InsertSorted(_, _, _)
InsertSorted(n, s, desc) ==
  IF s = <<>> THEN <<n>>
  ELSE IF Before(n, Last(s), desc)
       THEN Append(InsertSorted(n, Front(s), desc), Last(s))
       ELSE Append(s, n)

RECURSIVE StableSort(_, _)
StableSort(s, desc) ==
  IF s = <<>> THEN <<>>
  ELSE InsertSorted(Last(s), StableSort(Front(s), desc), desc)

sortByAscending(ns)  == StableSort(ns, FALSE)
sortByDescending(ns) == StableSort(ns, TRUE)

\* ----------------------------------------------------------- DOM elements
\* Note.createElement followed by setupNoteEventListeners: a fresh element on
\* the board with a fresh closure; isDragging = false, offsets not yet set.
newElement(id) ==
  [note |-> id, attached |-> TRUE, isDragging |-> FALSE,
   dragOffsetX |-> 0, dragOffsetY |-> 0, fadeOut |-> FALSE, animListeners |-> 0,
   quoteText |-> "idle", pending |-> 0, timers |-> 0]

\* noteElement.offsetWidth / offsetHeight: an element outside the document
\* has no layout box.
offsetWidth(e)  == IF e.attached THEN NoteW ELSE 0
offsetHeight(e) == IF e.attached THEN NoteH ELSE 0

\* noteElement.getBoundingClientRect() of an attached element.
noteRectLeft(ns, b, e) == b.left + ns[IndexOf(ns, e.note)].x
noteRectTop(ns, b, e)  == b.top  + ns[IndexOf(ns, e.note)].y

PointerOver(ns, b, e, p) ==
  /\ e.attached
  /\ e.note \in Ids(ns)
  /\ noteRectLeft(ns, b, e) <= p[1] /\ p[1] <= noteRectLeft(ns, b, e) + NoteW
  /\ noteRectTop(ns, b, e)  <= p[2] /\ p[2] <= noteRectTop(ns, b, e) + NoteH

PointerOnBoard(b, p) ==
  /\ b.left <= p[1] /\ p[1] <= b.left + b.width
  /\ b.top  <= p[2] /\ p[2] <= b.top + b.height

\* The closures that can still act: attached, or detached but dragging or
\* with a quote request in flight or an error-indicator timer running.
liveClosures(es) ==
  SelectSeq(es, LAMBDA e : e.attached \/ e.isDragging
                           \/ e.pending > 0 \/ e.timers > 0)

\* renderAllNotes: every element on the board is removed, then one new
\* element with new listeners is appended per note, in Manager order.
renderAllNotes(es, ns) ==
  liveClosures([i \in 1..Len(es) |-> [es[i] EXCEPT !.attached = FALSE]])
    \o [i \in 1..Len(ns) |-> newElement(ns[i].id)]

\* ------------------------------------------------------------------- Init
Init ==
  /\ notes = <<>>
  /\ nextId = 1
  /\ board \in Boards
  /\ mouse \in Pointers
  /\ elems = renderAllNotes(<<>>, notes)
  /\ saved = [data |-> <<>>, writes |-> 0, ok |-> TRUE]
  /\ exported = [data |-> <<>>, calls |-> 0, ok |-> TRUE]
  /\ thrown = "none"
  /\ ticks = 0
  /\ resolver = [cand |-> <<0, 0>>, note |-> <<0, 0>>, board |-> <<0, 0>>,
                 out |-> <<0, 0>>, done |-> FALSE]

\* -------------------------------------------------------- createNewNote
\* A caller that pushes the new note into the collection itself.
createAndAdd_unchecked(ts, x, y) ==
  /\ notes' = Append(notes, createNote(nextId, "", x, y, ts))
  /\ nextId' = nextId + 1
  /\ thrown' = "none"

\* createNote({content: '', x, y}) followed by noteManager.addNote(note): the
\* note gets the next identifier; an error of addNote leaves createNewNote.
createAndAdd(ts, x, y) ==
  /\ notes' = addNote(notes, createNote(nextId, "", x, y, ts))
  /\ nextId' = nextId + 1
  /\ thrown' = IF addNoteFails(notes, createNote(nextId, "", x, y, ts))
               THEN "DuplicateIdentifier" ELSE "none"

\* dblclick on the board itself (event.target === noteBoard).
createNewNote(ts) ==
  /\ nextId <= MaxNotes
  /\ Len(elems) < MaxElems
  /\ PointerOnBoard(board, mouse)
  /\ \A i \in 1..Len(elems) : ~PointerOver(notes, board, elems[i], mouse)
  /\ createAndAdd(ts, mouse[1] - board.left, mouse[2] - board.top)
  /\ elems' = IF nextId \in Ids(notes) THEN elems
              ELSE Append(elems, newElement(nextId))
  /\ UNCHANGED <<board, mouse, saved, ticks, resolver, exported>>

\* -------------------------------------------- setupNoteEventListeners
\* A handler that forgets the content region in its early return.
onMouseDown_contentDrags(i, target) ==
  /\ PointerOver(notes, board, elems[i], mouse)
  /\ IF target \in {"delete", "quote"}
     THEN elems' = elems
     ELSE elems' = [elems EXCEPT
            ![i].isDragging  = TRUE,
            ![i].dragOffsetX = mouse[1] - noteRectLeft(notes, board, elems[i]),
            ![i].dragOffsetY = mouse[2] - noteRectTop(notes, board, elems[i])]
  /\ UNCHANGED <<notes, nextId, board, mouse, saved, ticks, resolver, exported, thrown>>

\* mousedown inside element i, on the given target.
onMouseDown(i, target) ==
  /\ PointerOver(notes, board, elems[i], mouse)
  /\ IF target \in {"delete", "quote", "content"}
     THEN elems' = elems
     ELSE elems' = [elems EXCEPT
            ![i].isDragging  = TRUE,
            ![i].dragOffsetX = mouse[1] - noteRectLeft(notes, board, elems[i]),
            ![i].dragOffsetY = mouse[2] - noteRectTop(notes, board, elems[i])]
  /\ UNCHANGED <<notes, nextId, board, mouse, saved, ticks, resolver, exported, thrown>>

\* A clamp without the lower bound.
clampCoord_noFloor(v, boardDim, noteDim) == Min(v, boardDim - noteDim)

\* Math.max(0, Math.min(v, boardDim - noteDim))
clampCoord(v, boardDim, noteDim) == Max(0, Min(v, boardDim - noteDim))

\* The position one dragging closure stores for a pointer at p.
dragNewX(b, p, e) ==
  clampCoord(p[1] - b.left - e.dragOffsetX, b.width, offsetWidth(e))
dragNewY(b, p, e) ==
  clampCoord(p[2] - b.top - e.dragOffsetY, b.height, offsetHeight(e))

\* Listeners without the isDragging test: each note follows the pointer
\* through the listener registered last for it.
moveAll_everyListener(ns, es, b, p) ==
  [k \in 1..Len(ns) |->
     LET S == { i \in 1..Len(es) : es[i].note = ns[k].id }
     IN IF S = {} THEN ns[k]
        ELSE LET e == es[CHOOSE i \in S : \A j \in S : j <= i]
             IN [ns[k] EXCEPT !.x = dragNewX(b, p, e), !.y = dragNewY(b, p, e)]]

\* The document-level mousemove listeners run in registration order.
RECURSIVE moveAll(_, _, _, _)
moveAll(ns, es, b, p) ==
  IF es = <<>> THEN ns
  ELSE LET e    == Last(es)
           rest == moveAll(ns, Front(es), b, p)
       IN IF ~e.isDragging THEN rest
          ELSE updatePosition(rest, e.note, dragNewX(b, p, e), dragNewY(b, p, e))

\* A handler that re-bases the offset on the clamped position.
onMouseMove_rebase(p) ==
  /\ mouse' = p
  /\ notes' = moveAll(notes, elems, board, p)
  /\ elems' = [i \in 1..Len(elems) |->
        IF elems[i].isDragging
        THEN [elems[i] EXCEPT
               !.dragOffsetX = p[1] - board.left - dragNewX(board, p, elems[i]),
               !.dragOffsetY = p[2] - board.top - dragNewY(board, p, elems[i])]
        ELSE elems[i]]
  /\ UNCHANGED <<nextId, board, saved, ticks, resolver, exported, thrown>>

onMouseMove(p) ==
  /\ mouse' = p
  /\ notes' = moveAll(notes, elems, board, p)
  /\ UNCHANGED <<nextId, board, elems, saved, ticks, resolver, exported, thrown>>

\* mouseup listeners that only reach the elements on the board.
onMouseUp_attachedOnly ==
  /\ elems' = liveClosures(
        [i \in 1..Len(elems) |->
           IF elems[i].attached THEN [elems[i] EXCEPT !.isDragging = FALSE]
           ELSE elems[i]])
  /\ UNCHANGED <<notes, nextId, board, mouse, saved, ticks, resolver, exported, thrown>>

\* The document-level mouseup listeners of all closures.
onMouseUp ==
  /\ elems' = liveClosures(
                [i \in 1..Len(elems) |-> [elems[i] EXCEPT !.isDragging = FALSE]])
  /\ UNCHANGED <<notes, nextId, board, mouse, saved, ticks, resolver, exported, thrown>>

\* click on the quote button of element i: the indicator is shown and
\* note.addRandomQuote() starts its fetch.
onQuoteClick(i) ==
  /\ elems[i].attached
  /\ elems[i].pending + elems[i].timers < MaxPending
  /\ elems' = [elems EXCEPT ![i].quoteText = "pending", ![i].pending = @ + 1]
  /\ UNCHANGED <<notes, nextId, board, mouse, saved, ticks, resolver, exported,
                 thrown>>

\* A quote handler that puts the note back into the Manager when the fetch
\* succeeds for a note that is no longer there.
quoteSucceeded_readds(i) ==
  /\ elems[i].note \in Ids(notes) =>
        Len(notes[IndexOf(notes, elems[i].note)].content) < MaxContent
  /\ notes' = IF elems[i].note \in Ids(notes)
              THEN appendQuote(notes, elems[i].note)
              ELSE addNote(notes, createNote(elems[i].note, QuoteText, 0, 0, 1))
  /\ elems' = liveClosures([elems EXCEPT ![i].pending = @ - 1,
                                         ![i].quoteText = "idle"])
  /\ thrown' = "none"

\* The handler resumes after the await: the quote has been appended to the
\* note and the icon is restored.
quoteSucceeded(i) ==
  /\ elems[i].note \in Ids(notes) =>
        Len(notes[IndexOf(notes, elems[i].note)].content) < MaxContent
  /\ notes' = appendQuote(notes, elems[i].note)
  /\ elems' = liveClosures([elems EXCEPT ![i].pending = @ - 1,
                                         ![i].quoteText = "idle"])
  /\ thrown' = "none"

\* A quote handler without its catch block: the rejection leaves the handler.
quoteFailed_uncaught(i) ==
  /\ notes' = notes
  /\ elems' = liveClosures([elems EXCEPT ![i].pending = @ - 1])
  /\ thrown' = "FetchError"

\* The catch block: the error indicator is shown, its 1.5 s timer is started
\* and the error is logged.
quoteFailed(i) ==
  /\ notes' = notes
  /\ elems' = [elems EXCEPT ![i].pending = @ - 1,
                            ![i].quoteText = "error",
                            ![i].timers = @ + 1]
  /\ thrown' = "none"

\* The fetch of a quote request of element i settles.
onQuoteSettled(i, ok) ==
  /\ elems[i].pending > 0
  /\ IF ok THEN quoteSucceeded(i) ELSE quoteFailed(i)
  /\ UNCHANGED <<nextId, board, mouse, saved, ticks, resolver, exported>>

\* The 1.5 s timer of an error indicator of element i fires.
onErrorTimeout(i) ==
  /\ elems[i].timers > 0
  /\ elems' = liveClosures([elems EXCEPT ![i].timers = @ - 1,
                                         ![i].quoteText = "idle"])
  /\ UNCHANGED <<notes, nextId, board, mouse, saved, ticks, resolver, exported,
                 thrown>>

\* ------------------------------------------------------------ deleteNote
\* A delete that drops the note from the Manager at once.
deleteNote_eager(i) ==
  /\ elems[i].attached
  /\ elems[i].animListeners < MaxListeners
  /\ elems' = [elems EXCEPT ![i].fadeOut = TRUE,
                            ![i].animListeners = @ + 1]
  /\ notes' = removeNote(notes, elems[i].note)
  /\ UNCHANGED <<nextId, board, mouse, saved, ticks, resolver, exported, thrown>>

\* click on the delete button of element i.
deleteNote(i) ==
  /\ elems[i].attached
  /\ elems[i].animListeners < MaxListeners
  /\ elems' = [elems EXCEPT ![i].fadeOut = TRUE,
                            ![i].animListeners = @ + 1]
  /\ UNCHANGED <<notes, nextId, board, mouse, saved, ticks, resolver, exported, thrown>>

\* Listeners whose second removeNote, finding no note with the identifier,
\* takes the last note of the collection instead.
removeTimes_spliceLast(ns, id, k) ==
  IF k = 0 THEN ns
  ELSE IF k = 1 THEN removeNote(ns, id)
  ELSE Front(removeNote(ns, id))

RECURSIVE removeTimes(_, _, _)
removeTimes(ns, id, k) ==
  IF k = 0 THEN ns ELSE removeTimes(removeNote(ns, id), id, k - 1)

\* animationend of the fade-out of element i: every registered listener runs.
onAnimationEnd(i) ==
  /\ elems[i].attached
  /\ elems[i].fadeOut
  /\ elems' = liveClosures([elems EXCEPT ![i].attached = FALSE])
  /\ notes' = removeTimes(notes, elems[i].note, elems[i].animListeners)
  /\ UNCHANGED <<nextId, board, mouse, saved, ticks, resolver, exported, thrown>>

\* --------------------------------------------------------- setupAutoSave
\* storage.js saveNotes(notes): the collaborator is handed the data and
\* stores it or fails to; ui.js does nothing after the call either way.
saveNotes(data) ==
  \E ok \in BOOLEAN :
     saved' = [data |-> data, writes |-> 1 - saved.writes, ok |-> ok]

\* A timer callback that saves only what changed since the last save.
autoSaveTick_dirtyCheck ==
  /\ ticks' = 1 - ticks
  /\ IF toJSON(notes) # saved.data THEN saveNotes(toJSON(notes))
                                   ELSE saved' = saved
  /\ UNCHANGED <<notes, nextId, board, mouse, elems, resolver, exported, thrown>>

\* The setInterval callback.
autoSaveTick ==
  /\ ticks' = 1 - ticks
  /\ saveNotes(toJSON(notes))
  /\ UNCHANGED <<notes, nextId, board, mouse, elems, resolver, exported, thrown>>

\* ----------------------------------------------------------- exportNotes
\* storage.js exportNotesAsJson(notes): the collaborator is handed the data
\* and triggers the download or fails to; it returns no value.
exportNotesAsJson(data) ==
  \E ok \in BOOLEAN :
     exported' = [data |-> data, calls |-> 1 - exported.calls, ok |-> ok]

\* An export that puts the notes in ascending order before serializing them.
exportNotes_sorted ==
  /\ notes' = sortByAscending(notes)
  /\ exportNotesAsJson(toJSON(sortByAscending(notes)))
  /\ UNCHANGED <<nextId, board, mouse, elems, saved, ticks, resolver, thrown>>

\* click on the export button.
exportNotes ==
  /\ exportNotesAsJson(toJSON(notes))
  /\ UNCHANGED <<notes, nextId, board, mouse, elems, saved, ticks, resolver,
                 thrown>>

\* ---------------------------------------------------- sortByAsc / sortByDesc
\* A layout loop that does not advance y.
cascade_flat(ns) ==
  [i \in 1..Len(ns) |-> [ns[i] EXCEPT !.x = 550, !.y = 50]]

\* x = 550; y += 50 before each updatePosition.
cascade(ns) ==
  [i \in 1..Len(ns) |-> [ns[i] EXCEPT !.x = 550, !.y = 50 * i]]

sortByAsc ==
  /\ Len(renderAllNotes(elems, notes)) <= MaxElems
  /\ notes' = cascade(getAllNotes(sortByAscending(notes)))
  /\ elems' = renderAllNotes(elems, sortByAscending(notes))
  /\ UNCHANGED <<nextId, board, mouse, saved, ticks, resolver, exported, thrown>>

\* sortByDesc left as a copy of sortByAsc.
sortByDesc_copyOfAsc ==
  /\ Len(renderAllNotes(elems, notes)) <= MaxElems
  /\ notes' = cascade(getAllNotes(sortByAscending(notes)))
  /\ elems' = renderAllNotes(elems, sortByAscending(notes))
  /\ UNCHANGED <<nextId, board, mouse, saved, ticks, resolver, exported, thrown>>

sortByDesc ==
  /\ Len(renderAllNotes(elems, notes)) <= MaxElems
  /\ notes' = cascade(getAllNotes(sortByDescending(notes)))
  /\ elems' = renderAllNotes(elems, sortByDescending(notes))
  /\ UNCHANGED <<nextId, board, mouse, saved, ticks, resolver, exported, thrown>>

\* ------------------------------------------------------------ environment
\* The viewport resizes: the board reports another rectangle.
resizeBoard ==
  /\ board' \in Boards \ {board}
  /\ UNCHANGED <<notes, nextId, mouse, elems, saved, ticks, resolver, exported, thrown>>

Next ==
  \/ \E ts \in Timestamps : createNewNote(ts)
  \/ \E i \in 1..Len(elems), target \in Targets : onMouseDown(i, target)
  \/ \E p \in Pointers : onMouseMove(p)
  \/ onMouseUp
  \/ \E i \in 1..Len(elems) : deleteNote(i)
  \/ \E i \in 1..Len(elems) : onAnimationEnd(i)
  \/ sortByAsc
  \/ sortByDesc
  \/ resizeBoard

Spec == Init /\ [][Next]_vars

\* The note lifecycle together with the auto-save timer (no drags).
NextSave ==
  \/ \E ts \in Timestamps : createNewNote(ts)
  \/ \E p \in Pointers : onMouseMove(p)
  \/ \E i \in 1..Len(elems) : deleteNote(i)
  \/ \E i \in 1..Len(elems) : onAnimationEnd(i)
  \/ autoSaveTick
  \/ sortByAsc
  \/ sortByDesc

SpecSave == Init /\ [][NextSave]_vars

\* The note lifecycle together with the auto-save timer and the export button.
NextIO ==
  \/ \E ts \in Timestamps : createNewNote(ts)
  \/ \E p \in Pointers : onMouseMove(p)
  \/ \E i \in 1..Len(elems) : deleteNote(i)
  \/ \E i \in 1..Len(elems) : onAnimationEnd(i)
  \/ autoSaveTick
  \/ exportNotes

SpecIO == Init /\ [][NextIO]_vars

\* The note lifecycle together with the quote requests (no pointer events,
\* no re-render).
NextQuote ==
  \/ \E ts \in Timestamps : createNewNote(ts)
  \/ \E i \in 1..Len(elems) : onQuoteClick(i)
  \/ \E i \in 1..Len(elems), ok \in BOOLEAN : onQuoteSettled(i, ok)
  \/ \E i \in 1..Len(elems) : onErrorTimeout(i)
  \/ \E i \in 1..Len(elems) : deleteNote(i)
  \/ \E i \in 1..Len(elems) : onAnimationEnd(i)

SpecQuote == Init /\ [][NextQuote]_vars

\* SpecSave with the exit transition of an element on the board always
\* signalling its completion eventually, and with the interval timer of
\* setupAutoSave firing again and again.
TransitionEnds == \E i \in 1..Len(elems) : onAnimationEnd(i)

SpecDelete ==
  Init /\ [][NextSave]_vars /\ WF_vars(TransitionEnds) /\ WF_vars(autoSaveTick)

\* The same without the sort buttons.
NextNoSort ==
  \/ \E ts \in Timestamps : createNewNote(ts)
  \/ \E p \in Pointers : onMouseMove(p)
  \/ \E i \in 1..Len(elems) : deleteNote(i)
  \/ \E i \in 1..Len(elems) : onAnimationEnd(i)
  \/ autoSaveTick

SpecDeleteNoSort ==
  Init /\ [][NextNoSort]_vars /\ WF_vars(TransitionEnds) /\ WF_vars(autoSaveTick)

\* The Note Manager on its own, driven by callers that create notes, add
\* notes under identifiers of their choice (a restored snapshot) and remove
\* them.
managerCreate(ts) ==
  /\ nextId <= MaxNotes + 1
  /\ createAndAdd(ts, 0, 0)
  /\ UNCHANGED <<board, mouse, elems, saved, ticks, resolver, exported>>

managerAdd(id, ts) ==
  /\ notes' = addNote(notes, createNote(id, "", 0, 0, ts))
  /\ thrown' = IF addNoteFails(notes, createNote(id, "", 0, 0, ts))
               THEN "DuplicateIdentifier" ELSE "none"
  /\ UNCHANGED <<nextId, board, mouse, elems, saved, ticks, resolver, exported>>

managerRemove(id) ==
  /\ notes' = removeNote(notes, id)
  /\ UNCHANGED <<nextId, board, mouse, elems, saved, ticks, resolver, exported,
                 thrown>>

NextManager ==
  \/ \E ts \in Timestamps : managerCreate(ts)
  \/ \E id \in 1..(MaxNotes + 1), ts \in Timestamps : managerAdd(id, ts)
  \/ \E id \in 1..(MaxNotes + 1) : managerRemove(id)

SpecManager == Init /\ [][NextManager]_vars

\* ------------------------------------------------- the drag clamp on its own
\* Candidate positions, note sizes and board sizes the clamp is run on.
CandXs     == {-30, 0, 10, 250, 400, 401, 520}
CandYs     == {-5, 0, 10, 450, 451, 600}
NoteSizes  == { <<100, 50>>, <<60, 40>> }
BoardSizes == { <<500, 500>>, <<800, 600>>, <<100, 50>>, <<60, 40>>, <<80, 45>> }

InitClamp ==
  /\ notes = <<>>
  /\ nextId = 1
  /\ board \in Boards
  /\ mouse \in Pointers
  /\ elems = <<>>
  /\ saved = [data |-> <<>>, writes |-> 0, ok |-> TRUE]
  /\ exported = [data |-> <<>>, calls |-> 0, ok |-> TRUE]
  /\ thrown = "none"
  /\ ticks = 0
  /\ resolver \in [cand : CandXs \X CandYs, note : NoteSizes, board : BoardSizes,
                    out : {<<0, 0>>}, done : {FALSE}]

\* The two clamp lines of the mousemove listener applied to resolver's inputs.
resolvePosition ==
  /\ ~resolver.done
  /\ resolver' = [resolver EXCEPT
        !.out  = << clampCoord(resolver.cand[1], resolver.board[1], resolver.note[1]),
                    clampCoord(resolver.cand[2], resolver.board[2], resolver.note[2]) >>,
        !.done = TRUE]
  /\ UNCHANGED <<notes, nextId, board, mouse, elems, saved, ticks, exported,
                 thrown>>

SpecClamp == InitClamp /\ [][resolvePosition]_vars

\* =================================================================== claims
Abs(n) == IF n < 0 THEN -n ELSE n

\* Some note of the Manager has identifier id.
NoteOf(ns, id) == ns[IndexOf(ns, id)]

\* C1: a note leaves the Manager only in a step in which the exit transition
\* of its element on the board completes, after a delete request on that
\* element; every auto-save tick taken while a delete request is waiting for
\* its transition hands over a snapshot that still contains the note.
C1_RemovedOnlyOnTransitionEnd ==
  [][ /\ \A id \in Ids(notes) \ Ids(notes') :
           \E i \in 1..Len(elems) :
              /\ elems[i].note = id
              /\ elems[i].attached
              /\ elems[i].fadeOut
              /\ elems[i].animListeners >= 1
              /\ \A j \in 1..Len(elems') :
                    elems'[j].note = id => ~elems'[j].attached
      /\ (ticks' # ticks) =>
           \A i \in 1..Len(elems) :
              (elems[i].attached /\ elems[i].fadeOut) =>
                 \E k \in 1..Len(saved'.data) :
                    saved'.data[k] = NoteOf(notes, elems[i].note)
    ]_vars

\* A save happened while a delete request is waiting for its transition.
C1_Witness ==
  \E i \in 1..Len(elems) :
     /\ elems[i].attached /\ elems[i].fadeOut
     /\ saved.writes = 1
     /\ elems[i].note \in Ids(saved.data)
     /\ elems[i].note \in Ids(notes)
     /\ Len(notes) = 2

\* C4: with the board at least as large as the note, the clamp returns an
\* in-bounds candidate unchanged and any other candidate moved to the nearest
\* point of [0, boardWidth-noteWidth] x [0, boardHeight-noteHeight];
\* board 500x500, note 100x50, candidate (520, 10) gives (400, 10).
C4_ClampNearestInBounds ==
  (resolver.done /\ resolver.board[1] >= resolver.note[1]
                 /\ resolver.board[2] >= resolver.note[2]) =>
    \A d \in 1..2 :
      LET c  == resolver.cand[d]
          hi == resolver.board[d] - resolver.note[d]
          r  == resolver.out[d]
      IN /\ 0 <= r /\ r <= hi
         /\ (0 <= c /\ c <= hi) => r = c
         /\ \A q \in 0..hi : Abs(r - c) <= Abs(q - c)
         /\ (resolver.cand = <<520, 10>> /\ resolver.board = <<500, 500>>
               /\ resolver.note = <<100, 50>>) => resolver.out = <<400, 10>>

\* The scenario of the claim has been resolved.
C4_Witness ==
  /\ resolver.done
  /\ resolver.cand = <<520, 10>>
  /\ resolver.board = <<500, 500>>
  /\ resolver.note = <<100, 50>>
  /\ resolver.out = <<400, 10>>

\* ------------------------------------------------------------ C2, C3
\* Notes of ns' that are new or whose position differs from the one in ns.
Positioned(ns, nsNext) ==
  { k \in 1..Len(nsNext) :
      \/ nsNext[k].id \notin Ids(ns)
      \/ nsNext[k].x # NoteOf(ns, nsNext[k].id).x
      \/ nsNext[k].y # NoteOf(ns, nsNext[k].id).y }

WithinBoard(b, n) ==
  /\ 0 <= n.x /\ n.x <= Max(0, b.width - NoteW)
  /\ 0 <= n.y /\ n.y <= Max(0, b.height - NoteH)

\* C2: every note created or re-positioned by a step (creation at the pointer,
\* a drag move, the cascade after a sort) lies within the board bounds of
\* that moment.
C2_PositionWithinBoard ==
  [][ \A k \in Positioned(notes, notes') : WithinBoard(board', notes'[k]) ]_vars

\* The notes some dragging closure moves on a pointer move.
Dragged(ns, es) ==
  { k \in 1..Len(ns) :
      \E i \in 1..Len(es) : es[i].isDragging /\ es[i].note = ns[k].id }

\* C3: every drag move stores, for each dragged note, a position within
\* [0, max(0, boardWidth - noteWidth)] x [0, max(0, boardHeight - noteHeight)]
\* of the board rectangle in effect at that move.
C3_DragMoveWithinBoard ==
  [][ (\E p \in Pointers : onMouseMove(p)) =>
         \A k \in Dragged(notes, elems) : WithinBoard(board, NoteOf(notes', notes[k].id))
    ]_vars

\* ------------------------------------------------------------ C5
\* The offsets of the dragging closures, in registration order.
DragOffsets(es) ==
  LET d == SelectSeq(es, LAMBDA e : e.isDragging)
  IN [i \in 1..Len(d) |-> <<d[i].note, d[i].dragOffsetX, d[i].dragOffsetY>>]

RECURSIVE IsSubseq(_, _)
IsSubseq(a, b) ==
  IF a = <<>> THEN TRUE
  ELSE IF b = <<>> THEN FALSE
  ELSE IF a[1] = b[1] THEN IsSubseq(Tail(a), Tail(b))
  ELSE IsSubseq(a, Tail(b))

\* The last registered dragging closure of note id, whose listener runs last.
LastDragging(es, id) ==
  LET S == { i \in 1..Len(es) : es[i].isDragging /\ es[i].note = id }
  IN CHOOSE i \in S : \A j \in S : j <= i

\* Every dragged note lands at pointer - board offset - drag offset, clamped.
CandidateFromOffset(p) ==
  \A k \in Dragged(notes, elems) :
     LET e == elems[LastDragging(elems, notes[k].id)]
         n == NoteOf(notes', notes[k].id)
     IN /\ n.x = Max(0, Min(p[1] - board.left - e.dragOffsetX,
                            board.width - offsetWidth(e)))
        /\ n.y = Max(0, Min(p[2] - board.top - e.dragOffsetY,
                            board.height - offsetHeight(e)))

RestartsDrag(i) ==
  /\ elems[i].isDragging
  /\ onMouseDown(i, "note")
  /\ \A j \in 1..Len(elems) : j # i => elems'[j] = elems[j]

Controls == {"delete", "quote", "content"}

\* C6: the number of dragging closures grows only in a step that is a
\* mousedown on an element under the pointer with the note itself as target;
\* a mousedown on the delete control, the quote control or the content region
\* changes no closure (isDragging, offsets) and no note.
C6_DragStartsOnNoteOnly ==
  [][ /\ Len(DragOffsets(elems')) > Len(DragOffsets(elems)) =>
           \E i \in 1..Len(elems) :
              /\ ~elems[i].isDragging
              /\ PointerOver(notes, board, elems[i], mouse)
              /\ onMouseDown(i, "note")
      /\ \A i \in 1..Len(elems) : \A t \in Controls :
           onMouseDown(i, t) => (elems' = elems /\ notes' = notes)
    ]_vars

\* One note is being dragged while the pointer is over another, idle one.
C6_Witness ==
  \E i, j \in 1..Len(elems) :
     /\ elems[i].isDragging
     /\ ~elems[j].isDragging
     /\ PointerOver(notes, board, elems[j], mouse)

\* ------------------------------------------------------------ C7
Idle(es, id) == \A i \in 1..Len(es) : es[i].note = id => ~es[i].isDragging

\* C7: a mouseup leaves no closure dragging, whatever the last move did; a
\* pointer move leaves the position of every Idle note as it was.
C7_DragEndReturnsToIdle ==
  [][ /\ onMouseUp => \A i \in 1..Len(elems') : ~elems'[i].isDragging
      /\ (mouse' # mouse \/ \E p \in Pointers : onMouseMove(p)) =>
           \A k \in 1..Len(notes) :
              Idle(elems, notes[k].id) =>
                 (Len(notes') = Len(notes) /\ notes'[k] = notes[k])
    ]_vars

\* After a clamped drag was ended, the pointer has moved away from the note.
C7_Witness ==
  \E i \in 1..Len(elems) :
     /\ ~elems[i].isDragging /\ elems[i].attached
     /\ elems[i].dragOffsetX > 0
     /\ NoteOf(notes, elems[i].note).x = board.width - NoteW
     /\ ~PointerOver(notes, board, elems[i], mouse)

\* ------------------------------------------------------------ C8
CascadeLayout(ns) ==
  /\ \A k \in 1..Len(ns) : ns[k].x = 550 /\ ns[k].y = 50 * k
  /\ \A k \in 1..(Len(ns) - 1) : ns[k].y < ns[k + 1].y

\* C8: a sort request leaves every note of the Manager at x = 550 and the
\* k-th note of the sorted order at y = 50 * k, whatever its position was.
C8_SortCascades ==
  [][ (sortByAsc \/ sortByDesc) =>
         /\ Ids(notes') = Ids(notes)
         /\ Len(notes') = Len(notes)
         /\ CascadeLayout(notes')
    ]_vars

\* Two notes in cascade, in an order only a sort produces.
C8_Witness ==
  /\ Len(notes) = 2
  /\ notes[1].id = 2 /\ notes[2].id = 1
  /\ CascadeLayout(notes)

\* ------------------------------------------------------------ C9
IdSeq(ns) == [k \in 1..Len(ns) |-> ns[k].id]

Reverse(q) == [k \in 1..Len(q) |-> q[Len(q) + 1 - k]]

\* The same notes (identifier, content, timestamp), in any order.
SameNotes(ns, ms) ==
  /\ Len(ns) = Len(ms)
  /\ Ids(ns) = Ids(ms)
  /\ \A k \in 1..Len(ms) :
        /\ ms[k].content = NoteOf(ns, ms[k].id).content
        /\ ms[k].timestamp = NoteOf(ns, ms[k].id).timestamp

\* Notes with equal timestamps are in the same relative order in ns and ms.
TiesKeepOrder(ns, ms) ==
  \A a, b \in 1..Len(ns) :
     (a < b /\ ns[a].timestamp = ns[b].timestamp) =>
        IndexOf(ms, ns[a].id) < IndexOf(ms, ns[b].id)

NonDecreasing(ns) ==
  \A k \in 1..(Len(ns) - 1) : ns[k].timestamp <= ns[k + 1].timestamp
NonIncreasing(ns) ==
  \A k \in 1..(Len(ns) - 1) : ns[k].timestamp >= ns[k + 1].timestamp
DistinctTimestamps(ns) ==
  \A a, b \in 1..Len(ns) : a # b => ns[a].timestamp # ns[b].timestamp

\* Timestamps 100, 300, 200 with contents a, b, c.
ScenarioNotes ==
  << createNote(1, "a", 0, 0, 100), createNote(2, "b", 0, 0, 300),
     createNote(3, "c", 0, 0, 200) >>
Contents(ns) == [k \in 1..Len(ns) |-> ns[k].content]

\* C9: an ascending (descending) sort request leaves the same notes in
\* non-decreasing (non-increasing) timestamp order, notes with equal
\* timestamps in their previous relative order; a descending sort of an
\* ascending order with distinct timestamps gives its exact reverse; the
\* notes a/100, b/300, c/200 sort to a, c, b and then to b, c, a.
C9_SortOrder ==
  /\ Contents(sortByAscending(ScenarioNotes)) = <<"a", "c", "b">>
  /\ Contents(sortByDescending(sortByAscending(ScenarioNotes))) = <<"b", "c", "a">>
  /\ [][ /\ sortByAsc =>
              /\ SameNotes(notes, notes')
              /\ NonDecreasing(notes')
              /\ TiesKeepOrder(notes, notes')
         /\ sortByDesc =>
              /\ SameNotes(notes, notes')
              /\ NonIncreasing(notes')
              /\ TiesKeepOrder(notes, notes')
         /\ (sortByDesc /\ NonDecreasing(notes) /\ DistinctTimestamps(notes)) =>
              IdSeq(notes') = Reverse(IdSeq(notes))
       ]_vars

\* Two notes with distinct timestamps in descending order, the later created
\* note first.
C9_Witness ==
  /\ Len(notes) = 2
  /\ notes[1].id = 2 /\ notes[2].id = 1
  /\ notes[1].timestamp > notes[2].timestamp

C11_SaveAndExportLeaveManager ==
  [][ (ticks' # ticks \/ saved' # saved \/ exported' # exported) =>
         /\ Len(notes') = Len(notes)
         /\ \A k \in 1..Len(notes) :
               /\ notes'[k].id = notes[k].id
               /\ notes'[k].content = notes[k].content
               /\ notes'[k].x = notes[k].x /\ notes'[k].y = notes[k].y
               /\ notes'[k].timestamp = notes[k].timestamp
    ]_vars

\* A failed save and a failed export of two notes that are not in timestamp
\* order, both still in the Manager as handed over.
C11_Witness ==
  /\ Len(notes) = 2
  /\ notes[1].timestamp > notes[2].timestamp
  /\ saved.writes = 1 /\ ~saved.ok /\ saved.data = toJSON(notes)
  /\ exported.calls = 1 /\ ~exported.ok /\ exported.data = toJSON(notes)

\* C12: when the fetch of a quote request fails, the handler lets no error
\* out, no note of the Manager changes (content included), and the quote
\* control of the element shows the error indicator with its timer started;
\* an error indicator always has a timer outstanding, and when a timer fires
\* the control shows the idle icon again.
C12_FailedQuoteIsContained ==
  /\ [][ \A i \in 1..Len(elems) :
           /\ onQuoteSettled(i, FALSE) =>
                 /\ thrown' = "none"
                 /\ notes' = notes
                 /\ Len(elems') = Len(elems)
                 /\ elems'[i].quoteText = "error"
                 /\ elems'[i].timers = elems[i].timers + 1
           /\ (onErrorTimeout(i) /\ elems[i].attached) =>
                 /\ elems'[i].quoteText = "idle"
                 /\ notes' = notes /\ thrown' = "none"
       ]_vars
  /\ [](\A i \in 1..Len(elems) :
           elems[i].quoteText = "error" => elems[i].timers > 0)

\* A quote was appended to a note, a later request for it failed and its
\* control shows the error indicator.
C12_Witness ==
  \E i \in 1..Len(elems) :
     /\ elems[i].attached /\ elems[i].quoteText = "error"
     /\ elems[i].pending = 0
     /\ elems[i].note \in Ids(notes)
     /\ NoteOf(notes, elems[i].note).content = QuoteText

\* C13: when the fetch of a quote request settles, with a quote or with a
\* failure, for an element whose note is no longer in the Manager, no error
\* is raised and the Manager's collection is unchanged: the removed note
\* does not come back and no remaining note changes.
C13_LateQuoteLeavesManager ==
  [][ \A i \in 1..Len(elems) : \A ok \in BOOLEAN :
        (onQuoteSettled(i, ok) /\ elems[i].note \notin Ids(notes)) =>
           /\ thrown' = "none"
           /\ Ids(notes') = Ids(notes)
           /\ notes' = notes
    ]_vars

\* A fetch is still in flight for a note that has been removed, while a
\* note with an appended quote remains in the Manager.
C13_Witness ==
  /\ Len(notes) = 1
  /\ notes[1].content = QuoteText
  /\ \E i \in 1..Len(elems) :
        /\ elems[i].note \notin Ids(notes)
        /\ ~elems[i].attached
        /\ elems[i].pending > 0

\* Number of quote requests in flight for the note with identifier id, over
\* all elements made for it.
RECURSIVE InFlight(_, _)
InFlight(es, id) ==
  IF es = <<>> THEN 0
  ELSE (IF es[1].note = id THEN es[1].pending ELSE 0) + InFlight(Tail(es), id)

\* C17: while a quote request for a note is in flight the quote control of
\* the note's element on the board shows the pending indicator, and it shows
\* the idle icon only when no request for the note is in flight.
C17_PendingShownWhileInFlight ==
  \A i \in 1..Len(elems) :
     elems[i].attached =>
        /\ InFlight(elems, elems[i].note) > 0 => elems[i].quoteText = "pending"
        /\ elems[i].quoteText = "idle" => InFlight(elems, elems[i].note) = 0

\* C14: a delete request repeated on a note's element registers a second
\* completion listener, so that removeNote runs again for an identifier that
\* is already gone: the step raises no error and its result is that of a
\* single removal; no other note leaves, and removing the identifier once
\* more changes nothing.
C14_RepeatedDeleteIsSingleRemoval ==
  [][ \A i \in 1..Len(elems) :
        (onAnimationEnd(i) /\ elems[i].animListeners > 1) =>
           /\ thrown' = "none"
           /\ notes' = removeNote(notes, elems[i].note)
           /\ Ids(notes') = Ids(notes) \ {elems[i].note}
           /\ removeNote(notes', elems[i].note) = notes'
    ]_vars

\* Two delete requests have been made on the element of one of two notes and
\* its exit transition is running.
C14_Witness ==
  /\ Len(notes) = 2
  /\ \E i \in 1..Len(elems) :
        /\ elems[i].attached /\ elems[i].fadeOut
        /\ elems[i].animListeners = 2
        /\ elems[i].note = notes[1].id

\* C15: adding a note whose identifier is already in the Manager signals
\* DuplicateIdentifier and leaves the collection as it was; an add that
\* succeeds makes the collection one longer with the note at its end; and
\* no two notes of the Manager ever share an identifier.
UniqueIds(ns) ==
  \A i, j \in 1..Len(ns) : ns[i].id = ns[j].id => i = j

AddOutcome(id) ==
  IF id \in Ids(notes)
  THEN thrown' = "DuplicateIdentifier" /\ notes' = notes
  ELSE /\ thrown' = "none"
       /\ Len(notes') = Len(notes) + 1
       /\ Front(notes') = notes
       /\ Last(notes').id = id

C15_DuplicateAddRejected ==
  /\ [][ /\ \A id \in 1..(MaxNotes + 1) : \A ts \in Timestamps :
               managerAdd(id, ts) => AddOutcome(id)
         /\ \A ts \in Timestamps : managerCreate(ts) => AddOutcome(nextId)
       ]_vars
  /\ [] UniqueIds(notes)

\* An add was refused with two notes in the Manager.
C15_Witness ==
  /\ thrown = "DuplicateIdentifier"
  /\ Len(notes) = 2

\* A delete request has been made on an element of the note with identifier
\* id, which is still in the Manager.
DeleteRequested(id) ==
  /\ id \in Ids(notes)
  /\ \E i \in 1..Len(elems) :
        elems[i].note = id /\ elems[i].fadeOut /\ elems[i].animListeners > 0

\* C16: every delete request for a note is eventually followed by the
\* removal of the note from the Manager, given that the exit transition of
\* an element on the board always ends.
C16_DeleteLeadsToRemoval ==
  \A id \in 1..MaxNotes : [](DeleteRequested(id) => <>(id \notin Ids(notes)))

\* C18: at most one note of the Manager is Dragging, that is, has a closure
\* whose isDragging is set, in every state.
C18_AtMostOneDragging == Cardinality(Dragged(notes, elems)) <= 1

\* C19: a pointer move changes nothing of the Manager but the position of
\* the notes that some closure is dragging: the identifiers and their
\* order, every content and timestamp, and the position of every other note
\* are as before, however many move listeners are registered; and it
\* changes no closure.
C19_MoveTouchesOnlyDragged ==
  [][ (\E p \in Pointers : onMouseMove(p)) =>
         /\ IdSeq(notes') = IdSeq(notes)
         /\ elems' = elems
         /\ \A k \in 1..Len(notes) :
               /\ notes'[k].content = notes[k].content
               /\ notes'[k].timestamp = notes[k].timestamp
               /\ k \notin Dragged(notes, elems) =>
                     (notes'[k].x = notes[k].x /\ notes'[k].y = notes[k].y)
    ]_vars

\* After a re-render during a drag, the note has a dragging closure that is
\* off the board and an idle one on it, next to another, idle note; the
\* drag has moved the dragged note away from where the sort had put it.
C19_Witness ==
  /\ Len(notes) = 2
  /\ \E i, j \in 1..Len(elems) :
        /\ elems[i].note = elems[j].note
        /\ elems[i].isDragging /\ ~elems[i].attached
        /\ ~elems[j].isDragging /\ elems[j].attached
        /\ NoteOf(notes, elems[i].note).x # 550
  /\ \E k \in 1..Len(notes) : Idle(elems, notes[k].id) /\ notes[k].x = 550
====
